---------------------------- MODULE Spec2Model ----------------------------
(***************************************************************************)
(* SCARA kinematics of RepRapFirmware (src/Movement/Kinematics):           *)
(* ScaraKinematics.cpp and the Kinematics contract of Kinematics.h.        *)
(*                                                                         *)
(* The C++ code computes in float.  Here every float is held in fixed      *)
(* point, each quantity with the unit named at its definition:             *)
(*   arm lengths, target x, y            whole millimetres                 *)
(*   radii, limited coordinates          1/100 mm     (LenScale)           *)
(*   cosines, sines, ratios              1/10000      (Unit)               *)
(*   angles returned by atan2f           milliradians (Milli per radian)   *)
(*   step quantities before truncation   1/1000 step  (Milli per step)     *)
(*   cross-talk coefficients             1/1000       (Milli)              *)
(* The theta and phi-minus-theta limits are the numbers given after A and  *)
(* B; the code compares them with radians and hands them to cosf as they   *)
(* are, and so does the model.                                             *)
(***************************************************************************)
EXTENDS Integers, Sequences, FiniteSets, TLC

\* ------------------------------------------------------------------------
\* Fixed-point arithmetic
\* ------------------------------------------------------------------------

Unit == 10^4

Milli == 10^3

LenScale == 10^2

\* pi, pi/2 and 2*pi in milliradians
Pi == 3142

HalfPi == 1571

TwoPi == 6283

\* 2*pi in microradians, for the range reduction of large arguments
TwoPiMicro == 6283185

fabs(a) == IF a < 0 THEN -a ELSE a

max(a, b) == IF a >= b THEN a ELSE b

fsquare(a) == a * a

\* the sign of s on the magnitude of m
copysignf(m, s) == IF s < 0 THEN -fabs(m) ELSE fabs(m)

\* a / b rounded to the nearest, b > 0: a float division kept in fixed point
RoundDiv(a, b) == IF a >= 0 THEN (a + b \div 2) \div b
                  ELSE -(((-a) + b \div 2) \div b)

\* a / b truncated toward zero, b > 0: the float to int32_t conversion
TruncDiv(a, b) == IF a >= 0 THEN a \div b ELSE -((-a) \div b)

RECURSIVE SqrtBetween(_, _, _)
SqrtBetween(n, lo, hi) ==
    IF lo >= hi THEN lo
    ELSE LET mid == (lo + hi + 1) \div 2
         IN  IF mid * mid <= n THEN SqrtBetween(n, mid, hi)
             ELSE SqrtBetween(n, lo, mid - 1)

\* sqrtf: the root of n >= 0, rounded down; n in units u^2 gives units u
sqrtf(n) == SqrtBetween(n, 0, 46340)

\* cosf of an angle of 0 .. pi/2 in milliradians, in 1/Unit (Taylor, 5 terms)
CosFirstQuadrant(a) ==
    LET a2 == (a * a) \div 100
        a4 == (a2 * a2) \div Unit
        a6 == (a4 * a2) \div Unit
        a8 == ((a6 \div 10) * a2) \div Milli
    IN  Unit - a2 \div 2 + a4 \div 24 - a6 \div 720 + a8 \div 40320

\* cosf of any angle in milliradians, in 1/Unit
cosf(a) ==
    LET r == ((fabs(a) * Milli) % TwoPiMicro) \div Milli
        h == IF r > Pi THEN TwoPi - r ELSE r
    IN  IF h > HalfPi THEN -CosFirstQuadrant(Pi - h) ELSE CosFirstQuadrant(h)

\* sinf of any angle in milliradians, in 1/Unit
sinf(a) == cosf(a - HalfPi)

\* atan of a ratio q = 0 .. 1000 (thousandths), in milliradians:
\* q*pi/4 + q*(1 - q)*(0.2447 + 0.0663*q), within 0.0015 rad of atan
AtanRatio(q) ==
    (q * 785398) \div 1000000
    + (q * (1000 - q) * (2447 + (663 * q) \div 1000)) \div 10000000

\* atan2f(y, x) in milliradians, -pi .. pi; the arguments in any common unit
atan2f(y, x) ==
    LET ax == fabs(x)
        ay == fabs(y)
        hi == max(ax, ay)
        lo == IF ax >= ay THEN ay ELSE ax
        q  == IF hi = 0 THEN 0
              ELSE IF hi < 1000000 THEN (lo * 1000) \div hi
              ELSE IF lo \div (hi \div 1000) > 1000 THEN 1000
              ELSE lo \div (hi \div 1000)
        a  == IF ax >= ay THEN AtanRatio(q) ELSE HalfPi - AtanRatio(q)
    IN  IF x >= 0 THEN (IF y >= 0 THEN a ELSE -a)
        ELSE (IF y >= 0 THEN Pi - a ELSE a - Pi)


\* radians to degrees and back: milliradians <-> millidegrees
RadiansToDegrees(a) == RoundDiv(a * 180 * Milli, Pi)

DegreesToRadians(d) == RoundDiv(d * Pi, 180 * Milli)

\* ------------------------------------------------------------------------
\* State: the fields of the one ScaraKinematics object, and the latest call
\* ------------------------------------------------------------------------

VARIABLES
    proximalArmLength,          \* P, mm
    distalArmLength,            \* D, mm
    segmentsPerSecond,
    minSegmentLength,
    thetaLimits,                \* <<min, max>>: thetaLimits[0], thetaLimits[1]
    phiMinusThetaLimits,        \* <<min, max>>
    crosstalk,                  \* <<c0, c1, c2>>, each in 1/Milli
    minRadius,                  \* derived, 1/LenScale mm
    maxRadius,                  \* derived, 1/LenScale mm
    proximalArmLengthSquared,   \* derived, mm^2
    distalArmLengthSquared,     \* derived, mm^2
    isDefaultArmMode,           \* the preferred arm mode
    call,                       \* the latest call: [op, in, out]
    commands                    \* how many SetOrReportParameters calls so far

params == <<proximalArmLength, distalArmLength, segmentsPerSecond,
            minSegmentLength, thetaLimits, phiMinusThetaLimits, crosstalk>>

derived == <<minRadius, maxRadius, proximalArmLengthSquared,
             distalArmLengthSquared>>

vars == <<params, derived, isDefaultArmMode, call, commands>>

\* The compiled-in defaults of ScaraKinematics.h, which is not among the
\* sources; the values are those of the specification's scenario.
DefaultProximalArmLength == 90

DefaultDistalArmLength == 90

DefaultMinTheta == -90

DefaultMaxTheta == 90

DefaultMinPhiMinusTheta == -140

DefaultMaxPhiMinusTheta == 140

DefaultSegmentsPerSecond == 200

DefaultMinSegmentSize == 2

\* ------------------------------------------------------------------------
\* Recalc
\* ------------------------------------------------------------------------

\* RecalcMinRadius with the limits converted from degrees before cosf
RecalcMinRadiusFromDegrees(P, D, lim) ==
    RoundDiv((P * Unit + D * max(cosf(DegreesToRadians(lim[1] * Milli)),
                                 cosf(DegreesToRadians(lim[2] * Milli)))) * 101,
             Unit)

\* minRadius of Recalc for arm lengths P, D and phi-minus-theta limits lim
RecalcMinRadius(P, D, lim) ==
    RoundDiv((P * Unit + D * max(cosf(lim[1] * Milli), cosf(lim[2] * Milli))) * 101,
             Unit)

\* maxRadius of Recalc
RecalcMaxRadius(P, D) == (P + D) * 99

\* Recalc(): the derived values from the raw ones
Recalc(P, D, lim) ==
    [minRadius                |-> RecalcMinRadius(P, D, lim),
     maxRadius                |-> RecalcMaxRadius(P, D),
     proximalArmLengthSquared |-> fsquare(P),
     distalArmLengthSquared   |-> fsquare(D)]

\* ------------------------------------------------------------------------
\* Construction
\* ------------------------------------------------------------------------

NoReply == [text |-> "", args |-> <<>>]

\* ScaraKinematics::ScaraKinematics().  isDefaultArmMode has no initialiser
\* in the constructor: it starts with either value.
Init ==
    /\ proximalArmLength = DefaultProximalArmLength
    /\ distalArmLength = DefaultDistalArmLength
    /\ segmentsPerSecond = DefaultSegmentsPerSecond
    /\ minSegmentLength = DefaultMinSegmentSize
    /\ crosstalk = <<0, 0, 0>>
    /\ thetaLimits = <<DefaultMinTheta, DefaultMaxTheta>>
    /\ phiMinusThetaLimits = <<DefaultMinPhiMinusTheta, DefaultMaxPhiMinusTheta>>
    /\ LET d == Recalc(DefaultProximalArmLength, DefaultDistalArmLength,
                       <<DefaultMinPhiMinusTheta, DefaultMaxPhiMinusTheta>>)
       IN  /\ minRadius = d.minRadius
           /\ maxRadius = d.maxRadius
           /\ proximalArmLengthSquared = d.proximalArmLengthSquared
           /\ distalArmLengthSquared = d.distalArmLengthSquared
    /\ isDefaultArmMode \in BOOLEAN
    /\ call = [op |-> "ScaraKinematics", in |-> <<>>, out |-> <<>>]
    /\ commands = 0


\* ------------------------------------------------------------------------
\* The G-code buffer handed to SetOrReportParameters.  GCodeBuffer is not
\* among the sources: its two fetch operations follow the specification's
\* description of the parameter source.
\* ------------------------------------------------------------------------

\* a command is a function from the letters it carries to the values
\* written after each: a scalar is a list of one value, and an array letter
\* may carry a wrong number of them
Letter(c, values) == c :> values

NoLetters == [c \in {} |-> <<>>]

\* the M669 commands explored: none, one or two letters, well-formed and
\* malformed arrays, alone and after a scalar
GCodes ==
    {NoLetters,
     Letter("P", <<60>>),
     Letter("D", <<60>>),
     Letter("S", <<100>>),
     Letter("T", <<1>>),
     Letter("A", <<-1, 1>>),
     Letter("A", <<-1>>),
     Letter("B", <<-1, 1>>),
     Letter("B", <<0, 0>>),
     Letter("B", <<1, 2, 3>>),
     Letter("C", <<500, 250, -500>>),
     Letter("C", <<500>>),
     Letter("P", <<60>>) @@ Letter("A", <<-1>>),
     Letter("P", <<60>>) @@ Letter("A", <<-1, 1>>),
     Letter("D", <<60>>) @@ Letter("B", <<0, 0>>),
     Letter("P", <<60>>) @@ Letter("D", <<60>>),
     Letter("S", <<100>>) @@ Letter("T", <<1>>),
     Letter("P", <<90>>) @@ Letter("C", <<500, 250, -500>>)}

\* the commands explored: M669, SCARA's, with each of GCodes, and M665, which
\* belongs to another geometry
Commands ==
    {<<669, gb>> : gb \in GCodes} \cup {<<665, NoLetters>>, <<665, Letter("D", <<60>>)>>}

\* the most SetOrReportParameters calls of one run
MaxCommands == 2

\* gb.Seen(c)
Seen(gb, c) == c \in DOMAIN gb

\* gb.TryGetFValue(c, val, seen): fetch-scalar-if-present
TryGetFValue(gb, c, val, seen) ==
    IF Seen(gb, c) THEN [val |-> gb[c][1], seen |-> TRUE]
    ELSE [val |-> val, seen |-> seen]

WrongNumberOfValues(c, numVals) ==
    [text |-> "Wrong number of values after letter", args |-> <<c, numVals>>]

\* gb.TryGetFloatArray(c, numVals, vals, reply, seen): fetch-array-if-present.
\* True when the letter is present: parsed, the array is applied and the
\* caller returns at once; malformed, a diagnostic goes into reply.
TryGetFloatArray(gb, c, numVals, vals, reply, seen) ==
    IF ~Seen(gb, c) THEN [ret |-> FALSE, vals |-> vals, reply |-> reply, seen |-> seen]
    ELSE IF Len(gb[c]) = numVals
         THEN [ret |-> TRUE, vals |-> gb[c], reply |-> reply, seen |-> TRUE]
         ELSE [ret |-> TRUE, vals |-> vals,
               reply |-> WrongNumberOfValues(c, numVals), seen |-> seen]

\* ------------------------------------------------------------------------
\* SetOrReportParameters
\* ------------------------------------------------------------------------

\* the report line of M669 without parameters
ReportReply(P, tl, D, pl, ct, sps, msl) ==
    [text |-> "Printer mode is Scara",
     args |-> <<P, tl[1], tl[2], D, pl[1], pl[2], ct[1], ct[2], ct[3], sps, msl>>]

\* Kinematics::SetOrReportParameters, the base class version (Kinematics.cpp
\* is not among the sources): reports that the M-code does not apply.
KinematicsSetOrReportParameters(mCode, errorIn) ==
    [ret |-> FALSE, error |-> TRUE,
     reply |-> [text |-> "parameters do not apply to this kinematics",
                args |-> <<mCode>>],
     recalc |-> FALSE]

\* ScaraKinematics::SetOrReportParameters(mCode, gb, reply, error), with
\* error = errorIn and an empty reply at entry; out.recalc records whether
\* Recalc() ran
SetOrReportParameters(mCode, gb, errorIn) ==
    IF mCode = 669
    THEN LET p == TryGetFValue(gb, "P", proximalArmLength, FALSE)
             d == TryGetFValue(gb, "D", distalArmLength, p.seen)
             s == TryGetFValue(gb, "S", segmentsPerSecond, d.seen)
             t == TryGetFValue(gb, "T", minSegmentLength, s.seen)
             a == TryGetFloatArray(gb, "A", 2, thetaLimits, NoReply, t.seen)
             b == TryGetFloatArray(gb, "B", 2, phiMinusThetaLimits, a.reply, a.seen)
             c == TryGetFloatArray(gb, "C", 3, crosstalk, b.reply, b.seen)
             early == IF a.ret THEN a ELSE IF b.ret THEN b ELSE c
             pl == IF a.ret THEN phiMinusThetaLimits ELSE b.vals
             ct == IF a.ret \/ b.ret THEN crosstalk ELSE c.vals
             r == Recalc(p.val, d.val, pl)
         IN  /\ proximalArmLength' = p.val
             /\ distalArmLength' = d.val
             /\ segmentsPerSecond' = s.val
             /\ minSegmentLength' = t.val
             /\ thetaLimits' = a.vals
             /\ phiMinusThetaLimits' = pl
             /\ crosstalk' = ct
             /\ IF early.ret
                THEN /\ UNCHANGED derived
                     /\ call' = [op |-> "SetOrReportParameters",
                                 in |-> [mCode |-> mCode, gb |-> gb, error |-> errorIn],
                                 out |-> [ret |-> TRUE, error |-> errorIn,
                                          reply |-> early.reply, recalc |-> FALSE]]
                ELSE IF c.seen
                THEN /\ minRadius' = r.minRadius
                     /\ maxRadius' = r.maxRadius
                     /\ proximalArmLengthSquared' = r.proximalArmLengthSquared
                     /\ distalArmLengthSquared' = r.distalArmLengthSquared
                     /\ call' = [op |-> "SetOrReportParameters",
                                 in |-> [mCode |-> mCode, gb |-> gb, error |-> errorIn],
                                 out |-> [ret |-> TRUE, error |-> errorIn,
                                          reply |-> NoReply, recalc |-> TRUE]]
                ELSE /\ UNCHANGED derived
                     /\ call' = [op |-> "SetOrReportParameters",
                                 in |-> [mCode |-> mCode, gb |-> gb, error |-> errorIn],
                                 out |-> [ret |-> FALSE, error |-> errorIn,
                                          reply |-> ReportReply(p.val, a.vals, d.val, pl,
                                                                ct, s.val, t.val),
                                          recalc |-> FALSE]]
             /\ UNCHANGED isDefaultArmMode
    ELSE /\ call' = [op |-> "SetOrReportParameters",
                     in |-> [mCode |-> mCode, gb |-> gb, error |-> errorIn],
                     out |-> KinematicsSetOrReportParameters(mCode, errorIn)]
         /\ UNCHANGED <<params, derived, isDefaultArmMode>>

\* one M-code handed to the kinematics, while the run's budget lasts
Command(mCode, gb, errorIn) ==
    /\ commands < MaxCommands
    /\ commands' = commands + 1
    /\ SetOrReportParameters(mCode, gb, errorIn)

\* ------------------------------------------------------------------------
\* CartesianToMotorSteps
\* ------------------------------------------------------------------------

\* axis indices: the arrays of the code start at 0, sequences at 1
X_AXIS == 1

Y_AXIS == 2

Z_AXIS == 3

\* cosPsiMinusTheta of line 35, in 1/Unit
CosPsiMinusTheta(x, y) ==
    RoundDiv((fsquare(x) + fsquare(y) - proximalArmLengthSquared
              - distalArmLengthSquared) * Unit,
             2 * proximalArmLength * distalArmLength)

\* square of line 38, in 1/Unit^2
Square(x, y) == fsquare(Unit) - fsquare(CosPsiMinusTheta(x, y))

\* the test of line 39: square < 0.01
NotReachable(x, y) == Square(x, y) < fsquare(Unit) \div 100

SinPsiMinusTheta(x, y) == sqrtf(Square(x, y))

\* SCARA_K1 and SCARA_K2 of lines 46 and 47, in 1/Unit mm
SCARA_K1(x, y) == proximalArmLength * Unit + distalArmLength * CosPsiMinusTheta(x, y)

SCARA_K2(x, y) == distalArmLength * SinPsiMinusTheta(x, y)

\* theta of arm mode 0 (line 57) and of arm mode 1 (line 66), milliradians
ThetaOfMode(mode, x, y) ==
    LET k1 == SCARA_K1(x, y)
        k2 == SCARA_K2(x, y)
    IN  IF mode THEN atan2f(k2 * x - k1 * y, k1 * x + k2 * y)
        ELSE atan2f(k2 * x + k1 * y, k1 * x - k2 * y)

\* the limit test of a mode: line 58 for mode 0, line 67 for mode 1.  theta
\* is in radians and is compared with the limit as configured.
ModeAccepts(mode, theta) ==
    IF mode THEN theta >= thetaLimits[1] * Milli
    ELSE theta <= thetaLimits[2] * Milli

\* ArmModeLoop giving up after the first mode, without trying the other
ArmModeLoopNoRetry(mode, switchedMode, x, y, tried) ==
    LET theta == ThetaOfMode(mode, x, y)
        pmt   == atan2f(SinPsiMinusTheta(x, y), CosPsiMinusTheta(x, y))
    IN  [ok |-> ModeAccepts(mode, theta), isDefaultArmMode |-> mode,
         theta |-> theta, psiMinusTheta |-> IF mode THEN pmt ELSE -pmt,
         tried |-> Append(tried, mode)]

\* ArmModeLoop starting from arm mode 0 whatever mode is recorded
ArmModeLoopDefaultFirst(mode, switchedMode, x, y, tried) ==
    LET theta0 == ThetaOfMode(TRUE, x, y)
        theta1 == ThetaOfMode(FALSE, x, y)
        pmt    == atan2f(SinPsiMinusTheta(x, y), CosPsiMinusTheta(x, y))
    IN  IF ModeAccepts(TRUE, theta0)
        THEN [ok |-> TRUE, isDefaultArmMode |-> TRUE, theta |-> theta0,
              psiMinusTheta |-> pmt, tried |-> <<TRUE>>]
        ELSE [ok |-> ModeAccepts(FALSE, theta1), isDefaultArmMode |-> FALSE,
              theta |-> theta1, psiMinusTheta |-> -pmt, tried |-> <<TRUE, FALSE>>]

\* the loop of lines 52 to 80, entered with isDefaultArmMode = mode:
\* what it leaves in isDefaultArmMode, theta and psiMinusTheta, whether it
\* left by break (ok) or by return false, and the modes whose equations it
\* evaluated, in order (tried: one entry for each run of the body)
RECURSIVE ArmModeLoop(_, _, _, _, _)
ArmModeLoop(mode, switchedMode, x, y, tried) ==
    LET theta == ThetaOfMode(mode, x, y)
        pmt   == atan2f(SinPsiMinusTheta(x, y), CosPsiMinusTheta(x, y))
    IN  IF ModeAccepts(mode, theta)
        THEN [ok |-> TRUE, isDefaultArmMode |-> mode, theta |-> theta,
              psiMinusTheta |-> IF mode THEN pmt ELSE -pmt,
              tried |-> Append(tried, mode)]
        ELSE IF switchedMode
        THEN [ok |-> FALSE, isDefaultArmMode |-> mode, theta |-> theta,
              psiMinusTheta |-> pmt, tried |-> Append(tried, mode)]
        ELSE ArmModeLoop(~mode, TRUE, x, y, Append(tried, mode))

\* lines 83 and 84 before the conversion to int32_t: the angle steps, 1/Milli
AngleSteps(angle, stepsPerDegree) == RadiansToDegrees(angle) * stepsPerDegree

\* the cross-talk coupling of lines 83 to 85: motorPos from the angle steps
\* and the Z steps (all 1/Milli step) 
Couple(thetaSteps, psiSteps, zSteps, ct) ==
    LET mx == TruncDiv(thetaSteps, Milli)
        my == TruncDiv(psiSteps - ct[1] * mx, Milli)
        mz == TruncDiv(zSteps - mx * ct[2] - my * ct[3], Milli)
    IN  <<mx, my, mz>>

NoMotorPos == <<0, 0, 0>>

\* CartesianToMotorSteps(machinePos, stepsPerMm, numAxes, motorPos);
\* machinePos in mm.  On failure motorPos is left as it was (NoMotorPos).
CartesianToMotorSteps(machinePos, stepsPerMm) ==
    LET x == machinePos[X_AXIS]
        y == machinePos[Y_AXIS]
        in == [machinePos |-> machinePos, stepsPerMm |-> stepsPerMm,
               isDefaultArmMode |-> isDefaultArmMode, crosstalk |-> crosstalk]
    IN  IF NotReachable(x, y)
        THEN /\ call' = [op |-> "CartesianToMotorSteps", in |-> in,
                         out |-> [ret |-> FALSE, motorPos |-> NoMotorPos,
                                  tried |-> <<>>, theta |-> 0, thetaSteps |-> 0,
                                  psiSteps |-> 0, zSteps |-> 0]]
             /\ UNCHANGED <<params, derived, isDefaultArmMode>>
        ELSE \E l \in {ArmModeLoop(isDefaultArmMode, FALSE, x, y, <<>>)} :
             LET psi == l.theta + l.psiMinusTheta
                 thetaSteps == AngleSteps(l.theta, stepsPerMm[X_AXIS])
                 psiSteps == AngleSteps(psi, stepsPerMm[Y_AXIS])
                 zSteps == machinePos[Z_AXIS] * stepsPerMm[Z_AXIS] * Milli
             IN  /\ isDefaultArmMode' = l.isDefaultArmMode
                 /\ call' = [op |-> "CartesianToMotorSteps", in |-> in,
                             out |-> [ret |-> l.ok,
                                      motorPos |-> IF l.ok
                                                   THEN Couple(thetaSteps, psiSteps,
                                                               zSteps, crosstalk)
                                                   ELSE NoMotorPos,
                                      tried |-> l.tried,
                                      theta |-> l.theta,
                                      thetaSteps |-> thetaSteps,
                                      psiSteps |-> psiSteps, zSteps |-> zSteps]]
                 /\ UNCHANGED <<params, derived>>

\* ------------------------------------------------------------------------
\* MotorStepsToCartesian
\* ------------------------------------------------------------------------

\* Decouple taking the cross-talk off once more instead of adding it back
DecoupleSubtracting(motorPos, ct) ==
    [psiSteps |-> motorPos[Y_AXIS] * Milli - motorPos[X_AXIS] * ct[1],
     zSteps   |-> motorPos[Z_AXIS] * Milli - motorPos[X_AXIS] * ct[2]
                  - motorPos[Y_AXIS] * ct[3]]

\* the de-coupling of lines 94 and 100: the distal arm's angle steps and the
\* Z steps (1/Milli step) from motorPos
Decouple(motorPos, ct) ==
    [psiSteps |-> motorPos[Y_AXIS] * Milli + motorPos[X_AXIS] * ct[1],
     zSteps   |-> motorPos[Z_AXIS] * Milli + motorPos[X_AXIS] * ct[2]
                  + motorPos[Y_AXIS] * ct[3]]

\* MotorStepsToCartesian(motorPos, stepsPerMm, numDrives, machinePos);
\* machinePos in 1/LenScale mm.  `solved` keeps, for comparison, what the call
\* before computed when that call was CartesianToMotorSteps.
NotSolved ==
    [ret |-> FALSE, motorPos |-> NoMotorPos, stepsPerMm |-> <<0, 0, 0>>,
     crosstalk |-> <<0, 0, 0>>, thetaSteps |-> 0, psiSteps |-> 0, zSteps |-> 0]

MotorStepsToCartesian(motorPos, stepsPerMm) ==
    LET d == Decouple(motorPos, crosstalk)
        arm1Angle == DegreesToRadians(RoundDiv(motorPos[X_AXIS] * Milli,
                                               stepsPerMm[X_AXIS]))
        arm2Angle == DegreesToRadians(RoundDiv(d.psiSteps, stepsPerMm[Y_AXIS]))
    IN  /\ call' = [op |-> "MotorStepsToCartesian",
                    in |-> [motorPos |-> motorPos, stepsPerMm |-> stepsPerMm,
                            crosstalk |-> crosstalk,
                            solved |-> IF call.op = "CartesianToMotorSteps"
                                       THEN [ret |-> call.out.ret,
                                             motorPos |-> call.out.motorPos,
                                             stepsPerMm |-> call.in.stepsPerMm,
                                             crosstalk |-> call.in.crosstalk,
                                             thetaSteps |-> call.out.thetaSteps,
                                             psiSteps |-> call.out.psiSteps,
                                             zSteps |-> call.out.zSteps]
                                       ELSE NotSolved],
                    out |-> [machinePos |->
                               <<RoundDiv(cosf(arm1Angle) * proximalArmLength
                                          + cosf(arm2Angle) * distalArmLength,
                                          Unit \div LenScale),
                                 RoundDiv(sinf(arm1Angle) * proximalArmLength
                                          + sinf(arm2Angle) * distalArmLength,
                                          Unit \div LenScale),
                                 RoundDiv(d.zSteps * LenScale,
                                          stepsPerMm[Z_AXIS] * Milli)>>,
                             psiSteps |-> d.psiSteps, zSteps |-> d.zSteps]]
        /\ UNCHANGED <<params, derived, isDefaultArmMode>>

\* ------------------------------------------------------------------------
\* IsReachable and LimitPosition
\* ------------------------------------------------------------------------

\* r of lines 153 and 165 for x, y in mm, in 1/LenScale mm
Radius(x, y) == sqrtf((fsquare(x) + fsquare(y)) * fsquare(LenScale))

\* IsReachable(x, y), x and y in mm
IsReachable(x, y) ==
    /\ call' = [op |-> "IsReachable", in |-> [x |-> x, y |-> y],
                out |-> [ret |-> /\ Radius(x, y) >= minRadius
                                 /\ Radius(x, y) <= maxRadius
                                 /\ x > 0]]
    /\ UNCHANGED <<params, derived, isDefaultArmMode>>

\* the body of LimitPosition for coords = <<x, y>> in mm: the coordinates it
\* leaves, in 1/LenScale mm
LimitedPosition(x, y) ==
    LET cx == x * LenScale
        cy == y * LenScale
        r == Radius(x, y)
        arcLength == RoundDiv(HalfPi * minRadius, Milli)
    IN  IF r < minRadius /\ y >= 0
        THEN LET xmax == sqrtf(fsquare(minRadius) - fsquare(cy))
                 arc == HalfPi - atan2f(cy, xmax)
                 p == RoundDiv(cx * Unit, xmax)
                 pArcLength == RoundDiv(arc * p, Unit)
             IN  <<RoundDiv(minRadius * cosf(HalfPi - pArcLength), Unit),
                   RoundDiv(minRadius * sinf(HalfPi - pArcLength), Unit)>>
        ELSE IF (r < minRadius \/ fabs(cx) < minRadius) /\ y < 0
        THEN LET length == -cy + arcLength
                 p == RoundDiv(cx * Unit, minRadius)
                 subLength == RoundDiv(p * length, Unit)
             IN  IF fabs(subLength) > arcLength
                 THEN <<copysignf(minRadius, cx), -fabs(subLength) + arcLength>>
                 ELSE LET angle == RoundDiv(HalfPi * (arcLength - subLength),
                                            arcLength)
                      IN  <<RoundDiv(minRadius * cosf(angle), Unit),
                            RoundDiv(minRadius * sinf(angle), Unit)>>
        ELSE IF r > maxRadius
        THEN <<RoundDiv(cx * maxRadius, r), RoundDiv(cy * maxRadius, r)>>
        ELSE <<cx, cy>>

\* LimitPosition(coords, numAxes, axesHomed)
LimitPosition(x, y) ==
    /\ call' = [op |-> "LimitPosition", in |-> [x |-> x, y |-> y],
                out |-> [coords |-> LimitedPosition(x, y)]]
    /\ UNCHANGED <<params, derived, isDefaultArmMode>>

\* ------------------------------------------------------------------------
\* The calls explored
\* ------------------------------------------------------------------------

\* targets of CartesianToMotorSteps: <<x, y, z>> in mm
Targets ==
    {<<120, 0, 0>>, <<181, 0, 0>>, <<0, 0, 0>>, <<180, 0, 5>>, <<150, 0, 0>>,
     <<-50, 100, 3>>, <<100, -100, 7>>, <<0, 120, 0>>, <<100, 50, 2>>}

\* steps per degree of X and Y, steps per mm of Z
StepsPerMm == {<<80, 80, 400>>, <<100, 50, 33>>}

\* a motor position handed to MotorStepsToCartesian besides the one the call
\* before produced
MotorPositions == {<<3600, -1800, 400>>}

\* points handed to IsReachable: <<x, y>> in mm
ReachPoints == {<<120, 0>>, <<-120, 0>>, <<300, 0>>, <<20, 30>>, <<60, 0>>}

\* points handed to LimitPosition: <<x, y>> in mm
LimitPoints ==
    {<<120, 0>>, <<300, 0>>, <<-150, 250>>, <<50, -200>>, <<100, -200>>,
     <<20, 30>>, <<30, -40>>, <<-60, -250>>}

Solved ==
    IF call.op = "CartesianToMotorSteps" /\ call.out.ret
    THEN {call.out.motorPos} ELSE {}

Next ==
    \/ \E cmd \in Commands, errorIn \in BOOLEAN :
          Command(cmd[1], cmd[2], errorIn)
    \/ \E machinePos \in Targets, stepsPerMm \in StepsPerMm :
          CartesianToMotorSteps(machinePos, stepsPerMm) /\ UNCHANGED commands
    \/ \E motorPos \in MotorPositions \cup Solved, stepsPerMm \in StepsPerMm :
          MotorStepsToCartesian(motorPos, stepsPerMm) /\ UNCHANGED commands
    \/ \E pt \in ReachPoints : IsReachable(pt[1], pt[2]) /\ UNCHANGED commands
    \/ \E pt \in LimitPoints : LimitPosition(pt[1], pt[2]) /\ UNCHANGED commands

Spec == Init /\ [][Next]_vars

\* ------------------------------------------------------------------------
\* The claims
\* ------------------------------------------------------------------------

\* the target and the arm mode at entry of the latest CartesianToMotorSteps
SolveX == call.in.machinePos[X_AXIS]

SolveY == call.in.machinePos[Y_AXIS]

ModeAtEntry == call.in.isDefaultArmMode

\* a mode is valid for a target when its theta passes the mode's limit test
ValidInMode(mode, x, y) == ModeAccepts(mode, ThetaOfMode(mode, x, y))

\* C1: a CartesianToMotorSteps call that returns false leaves the preferred
\* arm mode as it was at entry.
C1_ArmModeKeptOnFailure ==
    (call.op = "CartesianToMotorSteps" /\ ~call.out.ret)
        => isDefaultArmMode = ModeAtEntry

\* C2: whenever a call has returned, the derived values are those Recalc
\* computes from the current raw parameters.
C2_DerivedConsistent ==
    /\ proximalArmLengthSquared = fsquare(proximalArmLength)
    /\ distalArmLengthSquared = fsquare(distalArmLength)
    /\ minRadius = RecalcMinRadius(proximalArmLength, distalArmLength,
                                   phiMinusThetaLimits)
    /\ maxRadius = RecalcMaxRadius(proximalArmLength, distalArmLength)

\* C3: for a target that passes the singularity test the preferred mode is
\* tried first; valid, it is kept and the call returns true; else the other
\* mode is tried and, valid, becomes the preferred one with the call
\* returning true; both invalid, the call returns false.  The loop body runs
\* at most twice.
C3_PreferredModeFirst ==
    (call.op = "CartesianToMotorSteps" /\ ~NotReachable(SolveX, SolveY)) =>
        LET m == ModeAtEntry
            first == ValidInMode(m, SolveX, SolveY)
            other == ValidInMode(~m, SolveX, SolveY)
        IN  /\ Len(call.out.tried) \in {1, 2}
            /\ call.out.tried[1] = m
            /\ first => /\ call.out.ret
                        /\ call.out.tried = <<m>>
                        /\ isDefaultArmMode = m
            /\ (~first /\ other) => /\ call.out.ret
                                    /\ call.out.tried = <<m, ~m>>
                                    /\ isDefaultArmMode = ~m
            /\ (~first /\ ~other) => /\ ~call.out.ret
                                     /\ call.out.tried = <<m, ~m>>

\* C3's case: the preferred mode was invalid and the other one was taken
C3_Witness ==
    /\ call.op = "CartesianToMotorSteps"
    /\ call.out.ret
    /\ call.out.tried = <<ModeAtEntry, ~ModeAtEntry>>
    /\ isDefaultArmMode = ~ModeAtEntry

\* a command with a malformed array: A or B without exactly 2 values, C
\* without exactly 3
Malformed(gb) ==
    \/ Seen(gb, "A") /\ Len(gb["A"]) # 2
    \/ Seen(gb, "B") /\ Len(gb["B"]) # 2
    \/ Seen(gb, "C") /\ Len(gb["C"]) # 3

\* C4: M669 with a malformed array sets the caller's error flag, writes a
\* diagnostic into reply and returns true.
C4_MalformedArrayReported ==
    (/\ call.op = "SetOrReportParameters"
     /\ call.in.mCode = 669
     /\ Malformed(call.in.gb))
        => /\ call.out.error
           /\ call.out.reply.text # ""
           /\ call.out.ret

\* C5: a CartesianToMotorSteps call whose target passes the singularity test
\* and is valid in the mode preferred at its entry succeeds and leaves the
\* preferred mode unchanged, whether or not the other mode is valid too; so it
\* stays unchanged across any sequence of such calls.
C5_ArmModeSticky ==
    [][(/\ call'.op = "CartesianToMotorSteps"
        /\ ~NotReachable(call'.in.machinePos[X_AXIS], call'.in.machinePos[Y_AXIS])
        /\ ValidInMode(isDefaultArmMode, call'.in.machinePos[X_AXIS],
                       call'.in.machinePos[Y_AXIS]))
          => (call'.out.ret /\ isDefaultArmMode' = isDefaultArmMode)]_vars

\* C5's case: the preferred mode was kept although the other was valid too
C5_Witness ==
    /\ call.op = "CartesianToMotorSteps"
    /\ call.out.ret
    /\ ~NotReachable(SolveX, SolveY)
    /\ ValidInMode(ModeAtEntry, SolveX, SolveY)
    /\ ValidInMode(~ModeAtEntry, SolveX, SolveY)
    /\ isDefaultArmMode = ModeAtEntry

\* cosElbow of the claim, from the arm lengths themselves, in 1/Unit
CosElbow(x, y) ==
    RoundDiv((fsquare(x) + fsquare(y) - fsquare(proximalArmLength)
              - fsquare(distalArmLength)) * Unit,
             2 * proximalArmLength * distalArmLength)

\* C6: CartesianToMotorSteps returns false for every target with
\* 1 - cosElbow^2 < 0.01, so for every fully extended target, and with
\* P = D = 90 for (181, 0) and (0, 0).
C6_SingularityRejected ==
    (/\ call.op = "CartesianToMotorSteps"
     /\ \/ fsquare(Unit) - fsquare(CosElbow(SolveX, SolveY)) < fsquare(Unit) \div 100
        \/ fsquare(SolveX) + fsquare(SolveY)
             = fsquare(proximalArmLength + distalArmLength)
        \/ /\ proximalArmLength = 90
           /\ distalArmLength = 90
           /\ <<SolveX, SolveY>> \in {<<181, 0>>, <<0, 0>>})
        => ~call.out.ret

\* the latest call ran Recalc
Recalculated == call.op = "SetOrReportParameters" /\ call.out.recalc

\* both phi-minus-theta limits lie within (-pi/2, pi/2)
LimitsWithinHalfPi ==
    \A i \in {1, 2} : fabs(phiMinusThetaLimits[i] * Milli) < HalfPi

\* max(cos(limitMin), cos(limitMax)), in 1/Unit
MaxCosLimit ==
    max(cosf(phiMinusThetaLimits[1] * Milli), cosf(phiMinusThetaLimits[2] * Milli))

\* C7 as stated: after Recalc, minRadius < maxRadius for every P > 0, D > 0
\* and limits within (-pi/2, pi/2).
C7_MinBelowMaxRadius ==
    (/\ Recalculated
     /\ proximalArmLength > 0
     /\ distalArmLength > 0
     /\ LimitsWithinHalfPi)
        => minRadius < maxRadius

\* C7 amended: after Recalc with P > 0, D > 0 and limits within
\* (-pi/2, pi/2), minRadius < maxRadius exactly when
\* 1.01 * (P + D*c) < 0.99 * (P + D), that is 2*P < D * (99 - 101*c), for
\* c = max(cos(limitMin), cos(limitMax)).
C7_MinBelowMaxRadiusWhenCosSmall ==
    (/\ Recalculated
     /\ proximalArmLength > 0
     /\ distalArmLength > 0
     /\ LimitsWithinHalfPi)
        => (minRadius < maxRadius
              <=> 2 * proximalArmLength * Unit
                    < distalArmLength * (99 * Unit - 101 * MaxCosLimit))

\* C7's case: Recalc ran with limits within (-pi/2, pi/2) and left
\* minRadius below maxRadius
C7_Witness ==
    /\ Recalculated
    /\ LimitsWithinHalfPi
    /\ minRadius < maxRadius

\* C8: the de-coupling of MotorStepsToCartesian gives back, from the motor
\* steps CartesianToMotorSteps produced, the angle steps of the distal arm
\* and the Z steps it started from, each within one step; motorX is the
\* proximal arm's angle steps within one step.
C8_CrossTalkRoundTrip ==
    (/\ call.op = "MotorStepsToCartesian"
     /\ call.in.solved.ret
     /\ call.in.motorPos = call.in.solved.motorPos
     /\ call.in.crosstalk = call.in.solved.crosstalk)
        => /\ fabs(call.in.motorPos[X_AXIS] * Milli - call.in.solved.thetaSteps) < Milli
           /\ fabs(call.out.psiSteps - call.in.solved.psiSteps) < Milli
           /\ fabs(call.out.zSteps - call.in.solved.zSteps) < Milli

\* C8's case: motor steps coupled with non-zero cross-talk were de-coupled
C8_Witness ==
    /\ call.op = "MotorStepsToCartesian"
    /\ call.in.solved.ret
    /\ call.in.motorPos = call.in.solved.motorPos
    /\ call.in.crosstalk = call.in.solved.crosstalk
    /\ call.in.crosstalk = <<500, 250, -500>>
    /\ call.in.motorPos[X_AXIS] # 0
    /\ call.in.motorPos[Y_AXIS] # 0

\* C9: LimitPosition maps every point whose radius exceeds maxRadius onto the
\* maxRadius circle in the same direction.
C9_OutsideScaledToMaxRadius ==
    (call.op = "LimitPosition" /\ Radius(call.in.x, call.in.y) > maxRadius)
        => call.out.coords
             = <<RoundDiv(call.in.x * LenScale * maxRadius,
                          Radius(call.in.x, call.in.y)),
                 RoundDiv(call.in.y * LenScale * maxRadius,
                          Radius(call.in.x, call.in.y))>>

\* C10: whenever CartesianToMotorSteps returns true, the theta it converted
\* lies within both theta limits.
C10_ThetaWithinBothLimits ==
    (call.op = "CartesianToMotorSteps" /\ call.out.ret)
        => /\ thetaLimits[1] * Milli <= call.out.theta
           /\ call.out.theta <= thetaLimits[2] * Milli

=============================================================================
